---- MODULE Spec2Model ----
(***************************************************************************)
(* GEOTEC soil-stabilisation expert system (src/app.py).                   *)
(*                                                                         *)
(* Texts (the prompt, the model's answer, parsed sections) are sequences   *)
(* of tokens; a token is a string that the code treats as a unit: one of   *)
(* the six section headings, a whitespace run, a word.  Python's find,     *)
(* split and strip are modelled on those sequences.                        *)
(***************************************************************************)
EXTENDS Integers, Sequences, FiniteSets, TLC

VARIABLES
    pc,               \* position of the running function
    data,             \* the ParameterSet (dict / pd.Series), or NoData
    additional_info,  \* project notes typed in the form
    normatives,       \* load_documents(NORMATIVES_DIR)
    articles,         \* load_documents(ARTICLES_DIR)
    qi,               \* index of the next search query in generate_technical_prompt
    academic_refs,    \* generate_technical_prompt: academic_refs
    unique_refs,      \* generate_technical_prompt: unique_refs
    prompt,           \* the document returned by generate_technical_prompt
    analysis,         \* the text returned by query_ai / given to parse_response
    sections,         \* the dict returned by parse_response
    view,             \* what display_results rendered (streamlit calls, in order)
    pdf,              \* what generate_pdf_report put in the document
    pdf_path,         \* what generate_pdf_report returned: a path or None
    web,              \* what the search provider answers to the 1st, 2nd, 3rd query
    validation_error, \* result of validate_soil_parameters
    temp_dir,         \* os.path.exists(TEMP_DIR)
    pdf_file,         \* the request's PDF file exists on disk
    trace,            \* history: the external calls and their outcomes, in order
    built,            \* data_input_interface: the dict built from the submitted form
    req               \* the requests in flight together (concurrent runs of main)

vars == <<pc, data, additional_info, normatives, articles, qi, academic_refs,
          unique_refs, prompt, analysis, sections, view, pdf, pdf_path, web,
          validation_error, temp_dir, pdf_file, trace, built, req>>

None == "None"

(***************************************************************************)
(* Sequence helpers                                                        *)
(***************************************************************************)
Range(s) == {s[i] : i \in 1..Len(s)}

SeqsUpTo(S, n) == UNION {[1..k -> S] : k \in 0..n}

RECURSIVE Concat(_)
Concat(ss) == IF ss = <<>> THEN <<>> ELSE Head(ss) \o Concat(Tail(ss))

Take(s, n) == SubSeq(s, 1, IF Len(s) < n THEN Len(s) ELSE n)

(***************************************************************************)
(* Python str operations on token sequences                                *)
(***************************************************************************)
\* str.find(m): 0-based position of the first occurrence, -1 when absent
Find(content, m) ==
    IF \E i \in 1..Len(content) : content[i] = m
    THEN (CHOOSE i \in 1..Len(content) :
             /\ content[i] = m
             /\ \A j \in 1..(i-1) : content[j] # m) - 1
    ELSE -1

\* m in content
Contains(content, m) == Find(content, m) >= 0

\* content.split(m)[0]: everything before the first occurrence of m
SplitHead(content, m) ==
    IF Contains(content, m) THEN SubSeq(content, 1, Find(content, m)) ELSE content

\* content.split(m)[1]: what lies between the first and the second occurrence
\* of m (or the end of the text); only used when m occurs in content
SplitSecond(content, m) ==
    SplitHead(SubSeq(content, Find(content, m) + 2, Len(content)), m)

Whitespace == {" ", "\n"}

RECURSIVE LStrip(_)
LStrip(s) == IF s # <<>> /\ Head(s) \in Whitespace THEN LStrip(Tail(s)) ELSE s

RECURSIVE RStrip(_)
RStrip(s) ==
    IF s # <<>> /\ s[Len(s)] \in Whitespace THEN RStrip(SubSeq(s, 1, Len(s) - 1)) ELSE s

\* str.strip()
Strip(s) == RStrip(LStrip(s))

(***************************************************************************)
(* parse_response                                                          *)
(***************************************************************************)
SectionNames == <<"parameter_evaluation", "classification", "problems",
                  "recommendation", "justification", "applications">>

\* section_markers, in the declared (dict insertion) order
section_markers ==
    [parameter_evaluation |-> "Evaluacion de Parametros:",
     classification       |-> "Clasificacion del Suelo:",
     problems             |-> "Problemas Identificados:",
     recommendation       |-> "Recomendacion Optima:",
     justification        |-> "Justificacion Tecnica:",
     applications         |-> "Aplicaciones Recomendadas:"]

\* tokens the norm regex matches (ASTM .., AASHTO .., ISO n-n, EN n, NTC n;
\* re.IGNORECASE, so "astm d698" matches and stays a distinct string)
NormTokens == {"ASTM D698", "astm d698", "AASHTO T99", "ISO 14688-1", "EN 1997",
               "NTC 1522", "ASTM D4318"}

\* tokens the bibliographic pattern matches: "Authors (yyyy). Title. Source."
RefTokens == {"Das (2010). Principles. Cengage.", "Bell (1996). Lime. EngGeo.",
              "Sherwood (1993). Soil. HMSO.", "Little (1995). Handbook. Kendall.",
              "Ingles (1972). Stabilization. Butterworths.", "Kezdi (1979). Roads. Elsevier."}

\* next(m for m in section_markers.values()
\*      if m != marker and content.find(m) > content.find(marker)), None)
end_marker(content, marker) ==
    LET cand == {i \in 1..Len(SectionNames) :
                    /\ section_markers[SectionNames[i]] # marker
                    /\ Find(content, section_markers[SectionNames[i]]) > Find(content, marker)}
    IN IF cand = {} THEN None
       ELSE section_markers[SectionNames[CHOOSE i \in cand : \A j \in cand : i <= j]]

\* body of the loop over section_markers.items(), for one section
section_content(content, section) ==
    LET marker == section_markers[section] IN
    IF Contains(content, marker)
    THEN LET after == SplitSecond(content, marker)
             em == end_marker(content, marker)
         IN Strip(IF em # None THEN SplitHead(after, em) ELSE after)
    ELSE <<>>

\* re.findall + list(set(..)): the distinct matched strings
norms_of(content) == Range(content) \cap NormTokens

\* ref_pattern.finditer: the matches in text order
references_of(content) == SelectSeq(content, LAMBDA t : t \in RefTokens)

parse_response(content) ==
    [parameter_evaluation |-> section_content(content, "parameter_evaluation"),
     classification       |-> section_content(content, "classification"),
     problems             |-> section_content(content, "problems"),
     recommendation       |-> section_content(content, "recommendation"),
     justification        |-> section_content(content, "justification"),
     applications         |-> section_content(content, "applications"),
     norms                |-> norms_of(content),
     references           |-> references_of(content)]

EmptySections ==
    [parameter_evaluation |-> <<>>, classification |-> <<>>, problems |-> <<>>,
     recommendation |-> <<>>, justification |-> <<>>, applications |-> <<>>,
     norms |-> {}, references |-> <<>>]

(***************************************************************************)
(* ParameterSet: the dict built by data_input_interface, read through      *)
(* pd.Series.  keys is the set of keys of the dict, none the keys whose    *)
(* value is None, val the numeric value of the others (0 where there is    *)
(* none).  Lengths are in tenths of a metre (1.5 m is 15).                 *)
(***************************************************************************)
NumKeys == {"water_level", "load_pressure", "desired_strength",
            "gravel", "sand", "silt", "clay", "ll", "lp", "ip",
            "moisture_content", "ph_value", "cbr", "swelling"}

GranKeys == {"gravel", "sand", "silt", "clay"}

\* the dict with soil type soil, the entries of the function p, and None
\* under the keys of none
ParameterSet(soil, p, none) ==
    [soil_type |-> soil,
     keys |-> DOMAIN p \cup none,
     none |-> none,
     val  |-> [k \in NumKeys |-> IF k \in DOMAIN p THEN p[k] ELSE 0]]

\* stands for the None that data_input_interface returns in place of a dict
NoData ==
    [soil_type |-> "<no data>", keys |-> {}, none |-> {}, val |-> [k \in NumKeys |-> 0]]

\* key in data
Has(d, key) == key \in d.keys

\* data[key] is None
IsNone(d, key) == key \in d.none

\* all(key in data for key in ['Grava (%)', 'Arena (%)', 'Limo (%)', 'Arcilla (%)'])
GranComplete(d) == \A k \in GranKeys : Has(d, k)

GranSum(d) == d.val.gravel + d.val.sand + d.val.silt + d.val.clay

(***************************************************************************)
(* validate_soil_parameters                                                *)
(***************************************************************************)
water_level_errors(d) ==
    IF d.val.water_level < 0 THEN <<"El nivel freatico no puede ser negativo">> ELSE <<>>

load_pressure_errors(d) ==
    IF d.val.load_pressure < 0 THEN <<"La presion de carga no puede ser negativa">> ELSE <<>>

\* the comparison made whether or not both limits were provided
atterberg_errors_unguarded(d) ==
    IF d.val.ll < d.val.lp
    THEN <<"El limite liquido (LL) no puede ser menor que el limite plastico (LP)">>
    ELSE <<>>

atterberg_errors(d) ==
    IF Has(d, "ll") /\ Has(d, "lp") /\ d.val.ll < d.val.lp
    THEN <<"El limite liquido (LL) no puede ser menor que el limite plastico (LP)">>
    ELSE <<>>

granulometry_errors_gt(d) ==
    IF GranComplete(d) /\ GranSum(d) > 100
    THEN <<"La suma de los porcentajes de granulometria debe ser 100%">>
    ELSE <<>>

granulometry_errors(d) ==
    IF GranComplete(d) /\ GranSum(d) # 100
    THEN <<"La suma de los porcentajes de granulometria debe ser 100%">>
    ELSE <<>>

\* the "- error" lines that the function joins and returns; the empty list
\* stands for the None it returns when there is no error
validate_soil_parameters(d) ==
    water_level_errors(d) \o load_pressure_errors(d)
        \o atterberg_errors(d) \o granulometry_errors(d)

NoError == <<>>

(***************************************************************************)
(* search_academic_references                                              *)
(*                                                                         *)
(* A response is what the search provider answers to one query: a network  *)
(* error (requests.get raises), or a page of result items.  An item is     *)
(* well formed (ok) or lacks an element the code dereferences, so that     *)
(* select_one(..).get_text() raises.                                       *)
(***************************************************************************)
PerQueryCap == 5

\* the loop over soup.select(".gs_ri")[:5]: items are appended to results
\* until one raises; the except clause logs and falls through to
\* "return results"
RECURSIVE parse_items(_)
parse_items(items) ==
    IF items = <<>> \/ ~Head(items).ok THEN <<>>
    ELSE <<[title |-> Head(items).title, authors |-> Head(items).authors]>>
             \o parse_items(Tail(items))

search_academic_references(resp) ==
    IF resp.error THEN <<>> ELSE parse_items(Take(resp.items, PerQueryCap))

\* the except clause of search_academic_references is entered
search_logs_error(resp) ==
    resp.error \/ \E i \in 1..Len(Take(resp.items, PerQueryCap)) : ~resp.items[i].ok

\* an entry of the history: the call, the index of the query (0 when it is
\* not a search), whether the call failed, and the references it returned
Event(call, query, failed, returned) ==
    [call |-> call, query |-> query, failed |-> failed, returned |-> returned]

(***************************************************************************)
(* generate_technical_prompt                                               *)
(***************************************************************************)
\* the third query taken from the liquid limit first
search_queries_ll_first(d) ==
    <<[kind |-> "nivel freatico", soil |-> d.soil_type, value |-> d.val.water_level],
      [kind |-> "presion de carga", soil |-> d.soil_type, value |-> d.val.load_pressure]>>
    \o (IF Has(d, "ll")
        THEN <<[kind |-> "LL", soil |-> d.soil_type, value |-> d.val.ll]>>
        ELSE IF Has(d, "ip")
        THEN <<[kind |-> "IP", soil |-> d.soil_type, value |-> d.val.ip]>>
        ELSE <<>>)

search_queries(d) ==
    <<[kind |-> "nivel freatico", soil |-> d.soil_type, value |-> d.val.water_level],
      [kind |-> "presion de carga", soil |-> d.soil_type, value |-> d.val.load_pressure]>>
    \o (IF Has(d, "ip")
        THEN <<[kind |-> "IP", soil |-> d.soil_type, value |-> d.val.ip]>>
        ELSE IF Has(d, "ll")
        THEN <<[kind |-> "LL", soil |-> d.soil_type, value |-> d.val.ll]>>
        ELSE <<>>)

\* the loop "for ref in academic_refs: if ref['title'] not in seen_titles"
RECURSIVE unique_from(_, _)
unique_from(refs, seen_titles) ==
    IF refs = <<>> THEN <<>>
    ELSE IF Head(refs).title \notin seen_titles
         THEN <<Head(refs)>> \o unique_from(Tail(refs), seen_titles \cup {Head(refs).title})
         ELSE unique_from(Tail(refs), seen_titles)

\* seen_titles is never filled
dedupe_nothing_seen(refs) == refs

dedupe(refs) == unique_from(refs, {})

\* A line of the document: the printed index (0 when the line has none), the
\* attribute label, the number printed after it, and the other text of the line
Line(index, label, num, text) ==
    [index |-> index, label |-> label, num |-> num, text |-> text]

Fixed(text) == Line(0, "", 0, <<text>>)

RefsCap == 10
CorpusCap == 5
ExcerptCap == 500

refs_text(refs) ==
    IF refs # <<>>
    THEN [i \in 1..Len(Take(refs, RefsCap)) |->
             Line(0, "", 0, <<refs[i].authors, refs[i].title>>)]
    ELSE <<Fixed("No se encontraron referencias adicionales")>>

normative_context(docs) ==
    IF docs # <<>>
    THEN <<Fixed("Normativas relevantes:")>>
         \o [i \in 1..Len(Take(docs, CorpusCap)) |->
                Line(0, "", 0, <<docs[i].name>> \o Take(docs[i].content, ExcerptCap))]
    ELSE <<Fixed("No hay normativas cargadas")>>

article_context(docs) ==
    IF docs # <<>>
    THEN <<Fixed("Articulos tecnicos:")>>
         \o [i \in 1..Len(Take(docs, CorpusCap)) |->
                Line(0, "", 0, <<docs[i].name>> \o Take(docs[i].content, ExcerptCap))]
    ELSE <<Fixed("No hay articulos cargados")>>

\* the label printed for each optional attribute
Label ==
    [desired_strength |-> "Resistencia deseada",
     gravel |-> "Grava", sand |-> "Arena", silt |-> "Limo", clay |-> "Arcilla",
     ll |-> "Limite liquido (LL)", lp |-> "Limite plastico (LP)",
     ip |-> "Indice de plasticidad (IP)",
     moisture_content |-> "Contenido de humedad natural",
     ph_value |-> "pH del suelo", cbr |-> "CBR",
     swelling |-> "Potencial de hinchamiento"]

OptionalKeys == DOMAIN Label

\* what the f-string prints for data[key]
Printed(d, key) ==
    Line(0, Label[key], d.val[key], IF IsNone(d, key) THEN <<"None">> ELSE <<>>)

Numbered(n, line) == [line EXCEPT !.index = n]

strength_lines(d) ==
    IF Has(d, "desired_strength") /\ ~IsNone(d, "desired_strength")
    THEN <<Numbered(4, Printed(d, "desired_strength"))>> ELSE <<>>

granulometry_lines(d) ==
    IF GranComplete(d)
    THEN <<Line(5, "Granulometria", 0, <<>>), Printed(d, "gravel"), Printed(d, "sand"),
           Printed(d, "silt"), Printed(d, "clay")>>
    ELSE <<>>

atterberg_lines_any(d) ==
    IF Has(d, "ll") \/ Has(d, "lp")
    THEN <<Line(6, "Limites de Atterberg", 0, <<>>), Printed(d, "ll"), Printed(d, "lp")>>
         \o (IF Has(d, "ip") THEN <<Printed(d, "ip")>> ELSE <<>>)
    ELSE <<>>

atterberg_lines(d) ==
    IF Has(d, "ll") /\ Has(d, "lp")
    THEN <<Line(6, "Limites de Atterberg", 0, <<>>), Printed(d, "ll"), Printed(d, "lp")>>
         \o (IF Has(d, "ip") THEN <<Printed(d, "ip")>> ELSE <<>>)
    ELSE <<>>

other_lines(d) ==
    (IF Has(d, "moisture_content") THEN <<Numbered(7, Printed(d, "moisture_content"))>> ELSE <<>>)
    \o (IF Has(d, "ph_value") THEN <<Numbered(8, Printed(d, "ph_value"))>> ELSE <<>>)
    \o (IF Has(d, "cbr") THEN <<Numbered(9, Printed(d, "cbr"))>> ELSE <<>>)
    \o (IF Has(d, "swelling") THEN <<Numbered(10, Printed(d, "swelling"))>> ELSE <<>>)

\* soil_data_text
soil_data_text(d) ==
    <<Fixed("### Datos Tecnicos del Suelo:"),
      Line(1, "Tipo de suelo", 0, <<d.soil_type>>),
      Line(2, "Nivel freatico", d.val.water_level, <<>>),
      Line(3, "Presion de carga", d.val.load_pressure, <<>>)>>
    \o strength_lines(d) \o granulometry_lines(d) \o atterberg_lines(d) \o other_lines(d)

\* {additional_info if additional_info else 'Ninguna'}
info_lines(info) ==
    IF info # <<>> THEN <<Line(0, "", 0, info)>> ELSE <<Fixed("Ninguna")>>

\* the fixed blocks: the analysis requirements and the strict answer format
requirements_block ==
    <<Fixed("### Requerimientos del Analisis:"),
      Fixed("Evaluacion de Parametros:"), Fixed("Clasificacion Detallada:"),
      Fixed("Problemas Identificados:"), Fixed("Recomendacion de Estabilizacion:"),
      Fixed("Justificacion Tecnica Rigurosa:"), Fixed("Aplicaciones Recomendadas:")>>

format_block ==
    <<Fixed("### Formato de Respuesta Estricto:")>>
    \o [i \in 1..Len(SectionNames) |-> Fixed(section_markers[SectionNames[i]])]

\* the returned f-string, given the references already resolved
technical_prompt(d, info, norms, arts, refs) ==
    <<Fixed("Eres un ingeniero geotecnico senior")>>
    \o soil_data_text(d)
    \o <<Fixed("### Contexto Tecnico:")>>
    \o normative_context(norms) \o article_context(arts)
    \o <<Fixed("### Referencias Academicas Relevantes:")>>
    \o refs_text(refs)
    \o <<Fixed("### Informacion Adicional del Proyecto:")>>
    \o info_lines(info)
    \o requirements_block \o format_block

\* the string t occurs in the document
DocContains(doc, t) ==
    \E i \in 1..Len(doc) : doc[i].label = t \/ t \in Range(doc[i].text)

(***************************************************************************)
(* Inputs                                                                  *)
(***************************************************************************)
\* an optional entry: <<>> when the key is absent, <<v>> when it holds v
GranOptions == {<<>>, <<0>>, <<40>>, <<60>>}
LimitOptions == {<<>>, <<20>>, <<40>>}
IndexOptions == {<<>>, <<0>>, <<20>>}

\* the function with the entries of o that are present
Entries(o) == [k \in {k \in DOMAIN o : o[k] # <<>>} |-> o[k][1]]

\* soil type "Arena", water table at 1.5 m, 150 kPa and nothing else
ArenaExample ==
    ParameterSet("Arena", Entries([water_level |-> <<15>>, load_pressure |-> <<150>>]), {})

\* every ParameterSet the validator is tried on
ValidatorInputs ==
    {ArenaExample} \cup
    {ParameterSet("Arena",
                  Entries([water_level |-> <<w>>, load_pressure |-> <<p>>,
                           gravel |-> g[1], sand |-> g[2], silt |-> g[3], clay |-> g[4],
                           ll |-> a[1], lp |-> a[2], ip |-> a[3]]),
                  {"desired_strength"}) :
        w \in {-5, 15}, p \in {-10, 150},
        g \in GranOptions \X GranOptions \X GranOptions \X GranOptions,
        a \in LimitOptions \X LimitOptions \X IndexOptions}

\* the content block that follows each heading in a round-trip text
Block ==
    [parameter_evaluation |-> <<"b1">>,
     classification       |-> <<"b2">>,
     problems             |-> <<"b3", " ", "b3">>,
     recommendation       |-> <<"b4">>,
     justification        |-> <<"b5">>,
     applications         |-> <<"b6">>]

SectionSet == Range(SectionNames)

HeadingOrders == {f \in [1..Len(SectionNames) -> SectionSet] :
                     \A i, j \in 1..Len(SectionNames) : f[i] = f[j] => i = j}

\* the six headings in the order f, each followed by its block
RoundTripText(f) ==
    Concat([i \in 1..Len(SectionNames) |-> <<section_markers[f[i]]>> \o Block[f[i]]])

RoundTripTexts == {RoundTripText(f) : f \in HeadingOrders}

MaxTextLen == 4

ParseAlphabet == {section_markers.parameter_evaluation, section_markers.classification,
                  section_markers.problems, "a", " "}

ParseInputs == RoundTripTexts \cup SeqsUpTo(ParseAlphabet, MaxTextLen)

(***************************************************************************)
(* data_input_interface                                                    *)
(*                                                                         *)
(* A form is the record of the widget values at submission.                *)
(***************************************************************************)
\* the keys of the dict built from the form f that hold a number
\* the plasticity index entered as soon as the liquid limit is
form_keys_ip_from_ll(f) ==
    {"water_level", "load_pressure"}
    \cup (IF f.desired_strength > 0 THEN {"desired_strength"} ELSE {})
    \cup (IF f.gravel + f.sand + f.silt + f.clay > 0 THEN GranKeys ELSE {})
    \cup (IF f.ll > 0 THEN {"ll"} ELSE {})
    \cup (IF f.lp > 0 THEN {"lp"} ELSE {})
    \cup (IF f.ll > 0 THEN {"ip"} ELSE {})
    \cup (IF f.moisture_content > 0 THEN {"moisture_content"} ELSE {})
    \cup (IF f.ph_value > 0 THEN {"ph_value"} ELSE {})
    \cup (IF f.cbr > 0 THEN {"cbr"} ELSE {})
    \cup (IF f.swelling > 0 THEN {"swelling"} ELSE {})

form_keys(f) ==
    {"water_level", "load_pressure"}
    \cup (IF f.desired_strength > 0 THEN {"desired_strength"} ELSE {})
    \cup (IF f.gravel + f.sand + f.silt + f.clay > 0 THEN GranKeys ELSE {})
    \cup (IF f.ll > 0 THEN {"ll"} ELSE {})
    \cup (IF f.lp > 0 THEN {"lp"} ELSE {})
    \cup (IF f.ll > 0 /\ f.lp > 0 THEN {"ip"} ELSE {})
    \cup (IF f.moisture_content > 0 THEN {"moisture_content"} ELSE {})
    \cup (IF f.ph_value > 0 THEN {"ph_value"} ELSE {})
    \cup (IF f.cbr > 0 THEN {"cbr"} ELSE {})
    \cup (IF f.swelling > 0 THEN {"swelling"} ELSE {})

\* the dict "data" built on submission
form_data(f) ==
    ParameterSet(f.soil_type,
                 [k \in form_keys(f) |-> IF k = "ip" THEN f.ll - f.lp ELSE f[k]],
                 IF f.desired_strength > 0 THEN {} ELSE {"desired_strength"})

form_result_unchecked(d, error) == d

\* "if validation_error: ... return None, ''" else the data
form_result(d, error) == IF error # <<>> THEN NoData ELSE d

(***************************************************************************)
(* query_ai                                                                *)
(***************************************************************************)
\* the except clause: return f"Error: {str(e)}"
error_text(message) == <<"Error:">> \o message

(***************************************************************************)
(* display_results                                                         *)
(***************************************************************************)
\* something rendered: the call, what it shows, and how many entries
Element(widget, arg, n) == [widget |-> widget, arg |-> arg, n |-> n]

\* str.lower() of a token
lower(t) ==
    CASE t = "ERROR" -> "error"
      [] t = "Errores" -> "errores"
      [] t = "Error:" -> "error:"
      [] t = "Inconsistencias" -> "inconsistencias"
      [] OTHER -> t

\* the lower-case tokens that have the keyword as a substring
TokensWith ==
    [inconsistencias |-> {"inconsistencias"},
     error           |-> {"error", "errores", "error:", "error."}]

\* keyword in text.lower()
keyword_in(keyword, text) ==
    \E i \in 1..Len(text) : lower(text[i]) \in TokensWith[keyword]

\* "inconsistencias" in evaluation.lower() or "error" in evaluation.lower()
has_failure_keyword(text) ==
    keyword_in("inconsistencias", text) \/ keyword_in("error", text)

display_refs_cap == 5
pdf_refs_cap == 5

tab1(s) ==
    <<Element("subheader", "Clasificacion del Suelo", 0),
      IF s.classification # <<>> THEN Element("markdown", "classification", 0)
      ELSE Element("warning", "No se pudo determinar la clasificacion del suelo", 0),
      Element("subheader", "Problemas Identificados", 0),
      IF s.problems # <<>> THEN Element("markdown", "problems", 0)
      ELSE Element("warning", "No se identificaron problemas especificos", 0)>>

tab2(s) ==
    <<Element("subheader", "Metodo de Estabilizacion Recomendado", 0)>>
    \o (IF s.recommendation # <<>>
        THEN <<Element("markdown", "recommendation", 0),
               Element("subheader", "Justificacion Tecnica", 0)>>
             \o (IF s.justification # <<>>
                 THEN <<Element("markdown", "justification", 0)>>
                      \o (IF s.norms # {}
                          THEN <<Element("subheader", "Normativas Aplicables", 0),
                                 Element("markdown", "norms", Cardinality(s.norms))>>
                          ELSE <<>>)
                      \o (IF s.references # <<>>
                          THEN <<Element("subheader", "Referencias Tecnicas", 0),
                                 Element("markdown", "references",
                                         Len(Take(s.references, display_refs_cap)))>>
                          ELSE <<>>)
                 ELSE <<Element("warning", "No se proporciono justificacion tecnica", 0)>>)
        ELSE <<Element("error", "No se pudo generar una recomendacion", 0)>>)

tab3(s) ==
    <<Element("subheader", "Aplicaciones Recomendadas", 0),
      IF s.applications # <<>> THEN Element("markdown", "applications", 0)
      ELSE Element("warning", "No se especificaron aplicaciones para este metodo", 0)>>

rejected_view(s) ==
    <<Element("error", "Problemas con los parametros ingresados:", 0),
      Element("markdown", "parameter_evaluation", 0)>>

accepted_view(s) ==
    <<Element("success", "Analisis completado exitosamente", 0),
      Element("tabs", "", 0)>>
    \o tab1(s) \o tab2(s) \o tab3(s)

display_results_no_return(text) ==
    LET s == parse_response(text) IN
    (IF s.parameter_evaluation # <<>> /\ has_failure_keyword(s.parameter_evaluation)
     THEN rejected_view(s) ELSE <<>>) \o accepted_view(s)

\* the streamlit calls made by display_results, in order
display_results(text) ==
    LET s == parse_response(text) IN
    IF s.parameter_evaluation # <<>> /\ has_failure_keyword(s.parameter_evaluation)
    THEN rejected_view(s)
    ELSE accepted_view(s)

(***************************************************************************)
(* generate_pdf_report                                                     *)
(***************************************************************************)
Row(d, key, label) == IF Has(d, key) THEN <<Element("row", label, d.val[key])>> ELSE <<>>

\* the table "1. Datos del Suelo"
soil_data(d) ==
    <<Element("row", "Tipo de suelo", 0)>>
    \o Row(d, "water_level", "Nivel freatico")
    \o Row(d, "load_pressure", "Presion de carga")
    \o (IF Has(d, "desired_strength") /\ ~IsNone(d, "desired_strength")
        THEN Row(d, "desired_strength", "Resistencia deseada") ELSE <<>>)
    \o (IF GranComplete(d)
        THEN <<Element("row", "Granulometria", 0)>> \o Row(d, "gravel", "- Grava")
             \o Row(d, "sand", "- Arena") \o Row(d, "silt", "- Limo")
             \o Row(d, "clay", "- Arcilla")
        ELSE <<>>)
    \o Row(d, "ll", "Limite liquido (LL)")
    \o Row(d, "lp", "Limite plastico (LP)")
    \o Row(d, "ip", "Indice de plasticidad (IP)")
    \o Row(d, "moisture_content", "Contenido de humedad")
    \o Row(d, "ph_value", "pH del suelo")
    \o Row(d, "cbr", "CBR")
    \o Row(d, "swelling", "Potencial de hinchamiento")

pdf_evaluation(s) ==
    IF s.parameter_evaluation # <<>>
    THEN <<Element("heading", "2. Evaluacion de Parametros", 0),
           Element("text", "parameter_evaluation", 0)>>
    ELSE <<>>

pdf_analysis(s) ==
    IF s.classification # <<>> \/ s.problems # <<>>
    THEN <<Element("heading", "3. Analisis Tecnico", 0)>>
         \o (IF s.classification # <<>>
             THEN <<Element("heading", "Clasificacion del Suelo", 0),
                    Element("text", "classification", 0)>> ELSE <<>>)
         \o (IF s.problems # <<>>
             THEN <<Element("heading", "Problemas Identificados", 0),
                    Element("text", "problems", 0)>> ELSE <<>>)
    ELSE <<>>

\* the justification written whether or not there is a recommendation
pdf_recommendation_flat(s) ==
    (IF s.recommendation # <<>>
     THEN <<Element("heading", "4. Recomendacion de Estabilizacion", 0),
            Element("text", "recommendation", 0)>>
     ELSE <<>>)
    \o (IF s.justification # <<>>
        THEN <<Element("heading", "5. Justificacion Tecnica", 0),
               Element("text", "justification", 0)>>
             \o (IF s.norms # {}
                 THEN <<Element("heading", "Normativas Aplicables:", 0),
                        Element("text", "norms", Cardinality(s.norms))>>
                 ELSE <<>>)
             \o (IF s.references # <<>>
                 THEN <<Element("heading", "Referencias Tecnicas:", 0),
                        Element("text", "references",
                                Len(Take(s.references, pdf_refs_cap)))>>
                 ELSE <<>>)
        ELSE <<>>)

pdf_recommendation(s) ==
    IF s.recommendation # <<>>
    THEN <<Element("heading", "4. Recomendacion de Estabilizacion", 0),
           Element("text", "recommendation", 0)>>
         \o (IF s.justification # <<>>
             THEN <<Element("heading", "5. Justificacion Tecnica", 0),
                    Element("text", "justification", 0)>>
                  \o (IF s.norms # {}
                      THEN <<Element("heading", "Normativas Aplicables:", 0),
                             Element("text", "norms", Cardinality(s.norms))>>
                      ELSE <<>>)
                  \o (IF s.references # <<>>
                      THEN <<Element("heading", "Referencias Tecnicas:", 0),
                             Element("text", "references",
                                     Len(Take(s.references, pdf_refs_cap)))>>
                      ELSE <<>>)
             ELSE <<>>)
    ELSE <<>>

pdf_applications(s) ==
    IF s.applications # <<>>
    THEN <<Element("heading", "6. Aplicaciones Recomendadas", 0),
           Element("text", "applications", 0)>>
    ELSE <<>>

\* what generate_pdf_report puts in the document, in order
pdf_document(d, s) ==
    <<Element("heading", "INFORME TECNICO DE ESTABILIZACION DE SUELOS", 0),
      Element("heading", "1. Datos del Suelo", 0)>>
    \o soil_data(d)
    \o pdf_evaluation(s) \o pdf_analysis(s) \o pdf_recommendation(s) \o pdf_applications(s)

PdfPath == "temp_reports/tmp.pdf"

(***************************************************************************)
(* Inputs of generate_technical_prompt                                     *)
(***************************************************************************)
RequiredKeys == {"water_level", "load_pressure"}

SampleValue ==
    [water_level |-> 15, load_pressure |-> 150, desired_strength |-> 200,
     gravel |-> 40, sand |-> 60, silt |-> 0, clay |-> 0,
     ll |-> 40, lp |-> 20, ip |-> 20,
     moisture_content |-> 12, ph_value |-> 7, cbr |-> 5, swelling |-> 2]

\* the granulometry keys are absent, complete, or lack the clay percentage
GranKeySets == {{}, GranKeys, GranKeys \ {"clay"}}

\* keys that the input sets give the value None
NoneKeys == {"desired_strength", "ph_value"}

PromptParameterSets ==
    {ParameterSet(soil, [k \in (RequiredKeys \cup g \cup o) \ n |-> SampleValue[k]], n) :
        soil \in {"Arena", "Turba"},
        g \in GranKeySets,
        o \in SUBSET (OptionalKeys \ GranKeys),
        n \in SUBSET NoneKeys}

Doc1 == [name |-> "ASTM_D698.pdf", content |-> <<"compactacion", "CBR">>]
Doc2 == [name |-> "cal.pdf", content |-> <<"estabilizacion", "con", "cal">>]

\* project notes and the two partitions of the corpus
Contexts ==
    {[info |-> <<>>, normatives |-> <<>>, articles |-> <<>>],
     [info |-> <<"pH del suelo", "7">>, normatives |-> <<Doc1>>, articles |-> <<>>],
     [info |-> <<"suelo", "blando">>, normatives |-> <<>>, articles |-> <<Doc2>>]}

Bad == [ok |-> FALSE, title |-> "", authors |-> ""]
Good(t, a) == [ok |-> TRUE, title |-> t, authors |-> a]

Items == {Good("T1", "A"), Good("T2", "B"), Bad}

\* the items of the answer to the third query: a title of the first two
\* answers under other authors
LastItems == {Good("T1", "B"), Bad}

NetworkError == [error |-> TRUE, items |-> <<>>]
Page(items) == [error |-> FALSE, items |-> items]

\* a page longer than the per-query cap, whose sixth item is malformed
LongPage == Page(<<Good("T1", "A"), Good("T2", "A"), Good("T3", "A"),
                   Good("T2", "B"), Good("T4", "A"), Bad>>)

MaxPageLen == 2
MaxLastPageLen == 1

Responses == {NetworkError, LongPage} \cup {Page(p) : p \in SeqsUpTo(Items, MaxPageLen)}

LastResponses == {NetworkError} \cup {Page(p) : p \in SeqsUpTo(LastItems, MaxLastPageLen)}

\* the answers to the queries of a ParameterSet (the third answer is never
\* asked for when there are two queries)
Webs(d) ==
    {<<r1, r2, r3>> :
        r1 \in Responses, r2 \in Responses,
        r3 \in IF Len(search_queries(d)) = 3 THEN LastResponses ELSE {Page(<<>>)}}

SmallWebs ==
    {<<NetworkError, Page(<<>>), Page(<<>>)>>,
     <<Page(<<Good("T1", "A"), Bad>>), Page(<<Good("Arcilla", "A")>>), Page(<<Good("T1", "B")>>)>>}

ResolverParameterSets ==
    {ParameterSet("Arcilla", [k \in RequiredKeys \cup o |-> SampleValue[k]], {"desired_strength"}) :
        o \in {{}, {"ll", "lp", "ip"}}}

\* what generate_technical_prompt is tried on: every shape of ParameterSet
\* with a few webs, and a few ParameterSets with every web
PromptInputs ==
    {[data |-> d, context |-> c, web |-> w] :
        d \in PromptParameterSets, c \in Contexts, w \in SmallWebs}
    \cup
    UNION {{[data |-> d, context |-> [info |-> <<>>, normatives |-> <<>>, articles |-> <<>>],
             web |-> w] : w \in Webs(d)} : d \in ResolverParameterSets}

(***************************************************************************)
(* Steps of generate_technical_prompt                                      *)
(***************************************************************************)
\* one turn of "for query in search_queries: academic_refs.extend(search(query))"
Search ==
    /\ pc = "search"
    /\ qi <= Len(search_queries(data))
    /\ LET returned == search_academic_references(web[qi]) IN
       /\ academic_refs' = academic_refs \o returned
       /\ trace' = Append(trace, Event("search", qi, search_logs_error(web[qi]), returned))
    /\ qi' = qi + 1
    /\ UNCHANGED <<pc, data, additional_info, normatives, articles, unique_refs,
                   prompt, analysis, sections, view, pdf, pdf_path, web,
                   validation_error, temp_dir, pdf_file>>
    /\ UNCHANGED <<built, req>>

\* the rest of the function: deduplication and assembly of the document
BuildPrompt ==
    /\ pc = "search"
    /\ qi > Len(search_queries(data))
    /\ unique_refs' = dedupe(academic_refs)
    /\ prompt' = technical_prompt(data, additional_info, normatives, articles, unique_refs')
    /\ pc' = "query_ai"
    /\ UNCHANGED <<data, additional_info, normatives, articles, qi, academic_refs,
                   analysis, sections, view, pdf, pdf_path, web,
                   validation_error, temp_dir, pdf_file, trace>>
    /\ UNCHANGED <<built, req>>

(***************************************************************************)
(* Specification of generate_technical_prompt alone                        *)
(***************************************************************************)
InitPrompt ==
    \E in \in PromptInputs :
        /\ pc = "search"
        /\ data = in.data
        /\ additional_info = in.context.info
        /\ normatives = in.context.normatives
        /\ articles = in.context.articles
        /\ web = in.web
        /\ qi = 1
        /\ academic_refs = <<>>
        /\ unique_refs = <<>>
        /\ prompt = <<>>
        /\ analysis = <<>>
        /\ sections = EmptySections
        /\ view = <<>>
        /\ pdf = <<>>
        /\ pdf_path = None
        /\ validation_error = NoError
        /\ temp_dir = TRUE
        /\ pdf_file = FALSE
        /\ trace = <<>>
        /\ built = NoData
        /\ req = <<>>

NextPrompt == Search \/ BuildPrompt

SpecPrompt == InitPrompt /\ [][NextPrompt]_vars

(***************************************************************************)
(* Inputs of main                                                          *)
(***************************************************************************)
\* a submitted form with granulometry g, limits a and the other optional
\* widgets left at 0 or all filled in
Form(g, a, filled) ==
    [soil_type |-> "Arcilla", water_level |-> 15, load_pressure |-> 150,
     desired_strength |-> IF filled THEN 200 ELSE 0,
     gravel |-> g[1], sand |-> g[2], silt |-> g[3], clay |-> g[4],
     ll |-> a[1], lp |-> a[2],
     moisture_content |-> IF filled THEN 12 ELSE 0,
     ph_value |-> IF filled THEN 7 ELSE 0,
     cbr |-> IF filled THEN 5 ELSE 0,
     swelling |-> IF filled THEN 2 ELSE 0,
     info |-> IF filled THEN <<"suelo", "blando">> ELSE <<>>]

Forms ==
    {Form(g, <<0, 0>>, FALSE) :
        g \in {<<0, 0, 0, 0>>, <<40, 60, 0, 0>>, <<40, 40, 0, 0>>}}
    \cup {Form(<<0, 0, 0, 0>>, a, FALSE) :
        a \in {<<40, 20>>, <<20, 40>>, <<40, 0>>, <<0, 20>>, <<20, 20>>}}
    \cup {Form(<<40, 60, 0, 0>>, <<40, 20>>, TRUE)}

Corpora == {[normatives |-> <<>>, articles |-> <<>>],
            [normatives |-> <<Doc1>>, articles |-> <<Doc2>>]}

\* the answers of the model: each heading is there or not, followed by a body
EvaluationParts ==
    {<<>>,
     <<section_markers.parameter_evaluation, "coherentes">>,
     <<section_markers.parameter_evaluation, "hay", "inconsistencias">>,
     <<section_markers.parameter_evaluation, "ERROR", "\n">>,
     <<section_markers.parameter_evaluation, "Errores">>}
ClassificationParts == {<<>>, <<section_markers.classification, "SC">>}
ProblemsParts == {<<>>, <<section_markers.problems, "licuefaccion">>}
RecommendationParts == {<<>>, <<section_markers.recommendation, "cal">>}
JustificationParts ==
    {<<>>,
     <<section_markers.justification, "\n">>,
     <<section_markers.justification, "segun", "ASTM D698", "Das (2010). Principles. Cengage.">>,
     <<section_markers.justification, "segun", "ASTM D698", "AASHTO T99", "ISO 14688-1",
       "EN 1997", "NTC 1522", "ASTM D4318", "Das (2010). Principles. Cengage.",
       "Bell (1996). Lime. EngGeo.", "Sherwood (1993). Soil. HMSO.",
       "Little (1995). Handbook. Kendall.", "Ingles (1972). Stabilization. Butterworths.",
       "Kezdi (1979). Roads. Elsevier.">>}
ApplicationsParts == {<<>>, <<section_markers.applications, "cimentacion">>}

AiTexts ==
    {e \o c \o p \o r \o j \o a :
        e \in EvaluationParts, c \in ClassificationParts, p \in ProblemsParts,
        r \in RecommendationParts, j \in JustificationParts, a \in ApplicationsParts}

\* str(e) of the exception raised by the API call
ErrorMessages == {<<"Connection", "error.">>}

(***************************************************************************)
(* Steps of main                                                           *)
(***************************************************************************)
\* lines 790-804: the title, the API key check and the loading of the corpus;
\* st.stop() ends the run through the finally clause
MainStart ==
    /\ pc = "main"
    /\ \E key \in BOOLEAN :
          IF key
          THEN \E c \in Corpora :
                  /\ normatives' = c.normatives
                  /\ articles' = c.articles
                  /\ view' = view
                  /\ pc' = "data_input_interface"
          ELSE /\ view' = Append(view, Element("error", "Configure OPENAI_API_KEY", 0))
               /\ pc' = "finally"
               /\ UNCHANGED <<normatives, articles>>
    /\ UNCHANGED <<data, additional_info, qi, academic_refs, unique_refs, prompt,
                   analysis, sections, pdf, pdf_path, web, validation_error,
                   temp_dir, pdf_file, trace>>
    /\ UNCHANGED <<built, req>>

\* data_input_interface and the test "if data is not None" of main
DataInputInterface ==
    /\ pc = "data_input_interface"
    /\ \E submitted \in BOOLEAN :
          IF submitted
          THEN \E f \in Forms :
                  LET d == form_data(f)
                      error == validate_soil_parameters(d)
                      result == form_result(d, error)
                  IN /\ built' = d
                     /\ validation_error' = error
                     /\ trace' = Append(trace, Event("validate", 0, error # <<>>, <<>>))
                     /\ data' = result
                     /\ additional_info' = IF result = NoData THEN <<>> ELSE f.info
                     /\ view' = IF error # <<>>
                                THEN Append(view, Element("error", "Error en los parametros ingresados", 0))
                                ELSE view
                     /\ pc' = IF result = NoData THEN "finally" ELSE "search"
          ELSE /\ pc' = "finally"
               /\ UNCHANGED <<built, validation_error, trace, data, additional_info, view>>
    /\ qi' = 1
    /\ academic_refs' = <<>>
    /\ UNCHANGED <<normatives, articles, unique_refs, prompt, analysis, sections,
                   pdf, pdf_path, web, temp_dir, pdf_file>>
    /\ UNCHANGED req

\* query_ai: the answer of the model, or the text built by the except clause
QueryAi ==
    /\ pc = "query_ai"
    /\ \/ \E t \in AiTexts :
             /\ analysis' = t
             /\ trace' = Append(trace, Event("ai", 0, FALSE, <<>>))
       \/ \E m \in ErrorMessages :
             /\ analysis' = error_text(m)
             /\ trace' = Append(trace, Event("ai", 0, TRUE, <<>>))
    /\ pc' = "display_results"
    /\ UNCHANGED <<data, additional_info, normatives, articles, qi, academic_refs,
                   unique_refs, prompt, sections, view, pdf, pdf_path, web,
                   validation_error, temp_dir, pdf_file>>
    /\ UNCHANGED <<built, req>>

\* display_results(data.iloc[0], analysis), then the debug checkbox
DisplayResults ==
    /\ pc = "display_results"
    /\ \E debug \in BOOLEAN :
          view' = view \o display_results(analysis)
                       \o (IF debug THEN <<Element("expander", "Respuesta completa de GPT-4", 0),
                                           Element("markdown", "analysis", 0)>>
                                    ELSE <<>>)
    /\ pc' = "generate_pdf_report"
    /\ UNCHANGED <<data, additional_info, normatives, articles, qi, academic_refs,
                   unique_refs, prompt, analysis, sections, pdf, pdf_path, web,
                   validation_error, temp_dir, pdf_file, trace>>
    /\ UNCHANGED <<built, req>>

\* sections = parse_response(analysis); pdf_path = generate_pdf_report(..).
\* The document is built, the temporary file is created in TEMP_DIR, the
\* document is written to it.  Either step can raise; the function then
\* returns None.
GeneratePdfReport ==
    /\ pc = "generate_pdf_report"
    /\ sections' = parse_response(analysis)
    /\ \E outcome \in {"written", "raised building", "raised writing"} :
          /\ pdf' = IF outcome = "written" /\ temp_dir
                    THEN pdf_document(data, sections') ELSE <<>>
          /\ pdf_path' = IF outcome = "written" /\ temp_dir THEN PdfPath ELSE None
          /\ pdf_file' = (outcome # "raised building" /\ temp_dir)
    /\ pc' = "download"
    /\ UNCHANGED <<data, additional_info, normatives, articles, qi, academic_refs,
                   unique_refs, prompt, analysis, view, web, validation_error,
                   temp_dir, trace>>
    /\ UNCHANGED <<built, req>>

\* "if pdf_path:" the file is read into the download button and unlinked; a
\* failure to read goes to the except clause of main, a failure to unlink
\* is logged
Download ==
    /\ pc = "download"
    /\ IF pdf_path # None
       THEN \E outcome \in {"handed", "raised"} :
               IF outcome = "handed"
               THEN /\ view' = Append(view, Element("download_button", "informe_estabilizacion.pdf", 0))
                    /\ \E unlinked \in BOOLEAN :
                          /\ pdf_file' = ~unlinked
                          /\ trace' = Append(trace, Event("unlink", 0, ~unlinked, <<>>))
               ELSE /\ view' = Append(view, Element("error", "Error en la aplicacion", 0))
                    /\ UNCHANGED <<pdf_file, trace>>
       ELSE UNCHANGED <<view, pdf_file, trace>>
    /\ pc' = "finally"
    /\ UNCHANGED <<data, additional_info, normatives, articles, qi, academic_refs,
                   unique_refs, prompt, analysis, sections, pdf, pdf_path, web,
                   validation_error, temp_dir>>
    /\ UNCHANGED <<built, req>>

\* the finally clause: shutil.rmtree(TEMP_DIR), whose failure is logged
\* main without the finally block's shutil.rmtree
Finally_no_rmtree ==
    /\ pc = "finally"
    /\ pc' = "done"
    /\ UNCHANGED <<data, additional_info, normatives, articles, qi, academic_refs,
                   unique_refs, prompt, analysis, sections, view, pdf, pdf_path, web,
                   validation_error, temp_dir, pdf_file, trace>>
    /\ UNCHANGED <<built, req>>

Finally ==
    /\ pc = "finally"
    /\ IF temp_dir
       THEN \E removed \in BOOLEAN :
               /\ temp_dir' = ~removed
               /\ pdf_file' = (pdf_file /\ ~removed)
               /\ trace' = Append(trace, Event("rmtree", 0, ~removed, <<>>))
       ELSE UNCHANGED <<temp_dir, pdf_file, trace>>
    /\ pc' = "done"
    /\ UNCHANGED <<data, additional_info, normatives, articles, qi, academic_refs,
                   unique_refs, prompt, analysis, sections, view, pdf, pdf_path, web,
                   validation_error>>
    /\ UNCHANGED <<built, req>>

(***************************************************************************)
(* Specification of main: one request                                      *)
(***************************************************************************)
Init ==
    /\ pc = "main"
    /\ web \in SmallWebs
    /\ data = NoData
    /\ additional_info = <<>>
    /\ normatives = <<>>
    /\ articles = <<>>
    /\ qi = 1
    /\ academic_refs = <<>>
    /\ unique_refs = <<>>
    /\ prompt = <<>>
    /\ analysis = <<>>
    /\ sections = EmptySections
    /\ view = <<>>
    /\ pdf = <<>>
    /\ pdf_path = None
    /\ validation_error = NoError
    /\ temp_dir = TRUE
    /\ pdf_file = FALSE
    /\ trace = <<>>
    /\ built = NoData
    /\ req = <<>>

Next ==
    \/ MainStart
    \/ DataInputInterface
    \/ Search
    \/ BuildPrompt
    \/ QueryAi
    \/ DisplayResults
    \/ GeneratePdfReport
    \/ Download
    \/ Finally

Spec == Init /\ [][Next]_vars

(***************************************************************************)
(* Specification of parse_response alone                                   *)
(***************************************************************************)
InitParse ==
    /\ pc = "parse_response"
    /\ analysis \in ParseInputs
    /\ sections = EmptySections
    /\ data = NoData
    /\ additional_info = <<>>
    /\ normatives = <<>>
    /\ articles = <<>>
    /\ web = <<>>
    /\ qi = 1
    /\ academic_refs = <<>>
    /\ unique_refs = <<>>
    /\ prompt = <<>>
    /\ view = <<>>
    /\ pdf = <<>>
    /\ pdf_path = None
    /\ validation_error = NoError
    /\ temp_dir = TRUE
    /\ pdf_file = FALSE
    /\ trace = <<>>
    /\ built = NoData
    /\ req = <<>>

ParseCall ==
    /\ pc = "parse_response"
    /\ sections' = parse_response(analysis)
    /\ pc' = "parsed"
    /\ UNCHANGED <<data, additional_info, normatives, articles, qi, academic_refs,
                   unique_refs, prompt, analysis, view, pdf, pdf_path, web,
                   validation_error, temp_dir, pdf_file, trace>>
    /\ UNCHANGED <<built, req>>

NextParse == ParseCall

SpecParse == InitParse /\ [][NextParse]_vars

(***************************************************************************)
(* Specification of validate_soil_parameters alone                         *)
(***************************************************************************)
InitValidate ==
    /\ pc = "validate_soil_parameters"
    /\ data \in ValidatorInputs
    /\ validation_error = NoError
    /\ analysis = <<>>
    /\ sections = EmptySections
    /\ additional_info = <<>>
    /\ normatives = <<>>
    /\ articles = <<>>
    /\ web = <<>>
    /\ qi = 1
    /\ academic_refs = <<>>
    /\ unique_refs = <<>>
    /\ prompt = <<>>
    /\ view = <<>>
    /\ pdf = <<>>
    /\ pdf_path = None
    /\ temp_dir = TRUE
    /\ pdf_file = FALSE
    /\ trace = <<>>
    /\ built = NoData
    /\ req = <<>>

ValidateCall ==
    /\ pc = "validate_soil_parameters"
    /\ validation_error' = validate_soil_parameters(data)
    /\ pc' = "validated"
    /\ UNCHANGED <<data, additional_info, normatives, articles, qi, academic_refs,
                   unique_refs, prompt, analysis, sections, view, pdf, pdf_path, web,
                   temp_dir, pdf_file, trace>>
    /\ UNCHANGED <<built, req>>

NextValidate == ValidateCall

SpecValidate == InitValidate /\ [][NextValidate]_vars

(***************************************************************************)
(* Requests in flight together                                             *)
(*                                                                         *)
(* Each request runs the script in its own thread of one process: the      *)
(* module body (makedirs) and then main.  The requests share the working   *)
(* directory, hence TEMP_DIR; each one's NamedTemporaryFile has a name of  *)
(* its own.  req[r] is the position of request r with its local pdf_path,  *)
(* whether its file is on disk and whether its bytes reached the caller.   *)
(***************************************************************************)
NumRequests == 2

Requests == 1..NumRequests

Request(at, path, file, handed) ==
    [pc |-> at, pdf_path |-> path, pdf_file |-> file, handed |-> handed]

\* what the single-request variables hold while the requests run
Idle ==
    /\ pc = "requests"
    /\ data = NoData
    /\ additional_info = <<>>
    /\ normatives = <<>>
    /\ articles = <<>>
    /\ web = <<>>
    /\ qi = 1
    /\ academic_refs = <<>>
    /\ unique_refs = <<>>
    /\ prompt = <<>>
    /\ analysis = <<>>
    /\ sections = EmptySections
    /\ view = <<>>
    /\ pdf = <<>>
    /\ pdf_path = None
    /\ validation_error = NoError
    /\ pdf_file = FALSE
    /\ trace = <<>>
    /\ built = NoData

IdleUnchanged ==
    UNCHANGED <<pc, data, additional_info, normatives, articles, qi, academic_refs,
                unique_refs, prompt, analysis, sections, view, pdf, pdf_path, web,
                validation_error, pdf_file, trace, built>>

\* os.makedirs(TEMP_DIR, exist_ok=True) of the module body
Makedirs(r) ==
    /\ req[r].pc = "makedirs"
    /\ temp_dir' = TRUE
    /\ req' = [req EXCEPT ![r].pc = "main"]
    /\ IdleUnchanged

\* main up to the call of generate_pdf_report: the request gets there, or
\* leaves early (no key, no submission, validation failure, an exception)
MainToPdf(r) ==
    /\ req[r].pc = "main"
    /\ \E reached \in BOOLEAN :
          req' = [req EXCEPT ![r].pc = IF reached THEN "NamedTemporaryFile" ELSE "finally"]
    /\ IdleUnchanged /\ UNCHANGED temp_dir

\* tempfile.NamedTemporaryFile(dir=TEMP_DIR, suffix=".pdf", delete=False);
\* without the directory it raises and generate_pdf_report returns None
NamedTemporaryFile(r) ==
    /\ req[r].pc = "NamedTemporaryFile"
    /\ req' = [req EXCEPT ![r] =
                  IF temp_dir THEN Request("output", None, TRUE, FALSE)
                  ELSE Request("finally", None, FALSE, FALSE)]
    /\ IdleUnchanged /\ UNCHANGED temp_dir

\* pdf.output(pdf_path); return pdf_path.  Writing needs the directory; an
\* exception makes generate_pdf_report return None
Output(r) ==
    /\ req[r].pc = "output"
    /\ \E written \in BOOLEAN :
          req' = [req EXCEPT ![r] =
                     IF written /\ temp_dir
                     THEN Request("open", PdfPath, TRUE, FALSE)
                     ELSE Request("finally", None, req[r].pdf_file, FALSE)]
    /\ IdleUnchanged /\ UNCHANGED temp_dir

\* with open(pdf_path, "rb") as f: st.download_button(..., data=f.read(), ...)
Open(r) ==
    /\ req[r].pc = "open"
    /\ req' = [req EXCEPT ![r] =
                  IF req[r].pdf_file
                  THEN Request("unlink", PdfPath, TRUE, TRUE)
                  ELSE Request("finally", PdfPath, FALSE, FALSE)]
    /\ IdleUnchanged /\ UNCHANGED temp_dir

\* try: os.unlink(pdf_path) except: log
Unlink(r) ==
    /\ req[r].pc = "unlink"
    /\ \E unlinked \in BOOLEAN :
          req' = [req EXCEPT ![r].pc = "finally",
                             ![r].pdf_file = req[r].pdf_file /\ ~unlinked]
    /\ IdleUnchanged /\ UNCHANGED temp_dir

\* finally: if os.path.exists(TEMP_DIR): try: shutil.rmtree(TEMP_DIR) except: log
Rmtree(r) ==
    /\ req[r].pc = "finally"
    /\ IF temp_dir
       THEN \E removed \in BOOLEAN :
               /\ temp_dir' = ~removed
               /\ req' = [q \in Requests |->
                             [req[q] EXCEPT !.pc = IF q = r THEN "done" ELSE req[q].pc,
                                            !.pdf_file = req[q].pdf_file /\ ~removed]]
       ELSE /\ req' = [req EXCEPT ![r].pc = "done"]
            /\ UNCHANGED temp_dir
    /\ IdleUnchanged

InitConcurrent ==
    /\ Idle
    /\ temp_dir \in BOOLEAN
    /\ req = [r \in Requests |-> Request("makedirs", None, FALSE, FALSE)]

NextConcurrent ==
    \E r \in Requests :
        \/ Makedirs(r)
        \/ MainToPdf(r)
        \/ NamedTemporaryFile(r)
        \/ Output(r)
        \/ Open(r)
        \/ Unlink(r)
        \/ Rmtree(r)

SpecConcurrent == InitConcurrent /\ [][NextConcurrent]_vars

(***************************************************************************)
(* Claims about parse_response                                             *)
(***************************************************************************)
\* the text is the six headings in some order, each followed by its block
IsRoundTripText(content) == content \in RoundTripTexts

\* C1: for every order of the six headings, each followed by its own content
\* block, parse_response returns for every section exactly its own block.
C1_RoundTripRecoversEveryBlock ==
    (pc = "parsed" /\ IsRoundTripText(analysis))
        => \A s \in SectionSet : sections[s] = Block[s]

(***************************************************************************)
(* Claims about validate_soil_parameters                                   *)
(***************************************************************************)
Reported == validation_error # NoError

\* C2: with non-negative water level and load pressure, no complete
\* granulometry and both LL and LP present, a violation is reported exactly
\* when LL < LP or the plasticity index is present and differs from LL - LP.
C2_AtterbergViolationIff ==
    (/\ pc = "validated"
     /\ data.val.water_level >= 0 /\ data.val.load_pressure >= 0
     /\ ~GranComplete(data)
     /\ Has(data, "ll") /\ Has(data, "lp"))
        => (Reported <=> (\/ data.val.ll < data.val.lp
                          \/ (Has(data, "ip") /\ data.val.ip # data.val.ll - data.val.lp)))

\* no invariant of the ParameterSet other than the granulometry sum is violated
OtherInvariantsHold(d) ==
    /\ d.val.water_level >= 0
    /\ d.val.load_pressure >= 0
    /\ (Has(d, "ll") /\ Has(d, "lp")) => d.val.ll >= d.val.lp
    /\ (Has(d, "ll") /\ Has(d, "lp") /\ Has(d, "ip")) => d.val.ip = d.val.ll - d.val.lp

\* C3: with the four percentages present and no other invariant violated, a
\* violation is reported exactly when the percentages do not sum to 100.
C3_GranulometryViolationIff ==
    (pc = "validated" /\ GranComplete(data) /\ OtherInvariantsHold(data))
        => (Reported <=> GranSum(data) # 100)

\* a sum below 100 has been validated and reported
C3_Witness ==
    /\ pc = "validated"
    /\ GranComplete(data) /\ OtherInvariantsHold(data)
    /\ GranSum(data) < 100
    /\ Reported

(***************************************************************************)
(* Claims about generate_technical_prompt                                  *)
(***************************************************************************)
PromptBuilt == pc = "query_ai"

\* the attribute is not in the ParameterSet, or is there with the value None
Missing(d, k) == ~Has(d, k) \/ IsNone(d, k)

\* C4 (as stated): the document contains the label text of no optional
\* attribute that is absent or None, whatever is embedded in it.
C4_NoLabelTextOfMissingAttribute ==
    PromptBuilt =>
        \A k \in OptionalKeys : Missing(data, k) => ~DocContains(prompt, Label[k])

\* C4 (amended): the document has no attribute line for an optional attribute
\* that is absent, nor for a desired strength that is None.
C4_NoLineOfMissingAttribute ==
    PromptBuilt =>
        \A k \in OptionalKeys :
            (~Has(data, k) \/ (k = "desired_strength" /\ IsNone(data, k)))
                => \A i \in 1..Len(prompt) : prompt[i].label # Label[k]

\* a document with lines for the attributes present, none for an absent one
\* whose label text the notes nevertheless carry
C4_Witness ==
    /\ PromptBuilt
    /\ ~Has(data, "ph_value") /\ Has(data, "ll") /\ ~Has(data, "lp") /\ Has(data, "cbr")
    /\ DocContains(prompt, Label["ph_value"])
    /\ \E i \in 1..Len(prompt) : prompt[i].label = Label["cbr"]

\* the results of the search calls, concatenated in query order
Collected ==
    Concat([i \in 1..Len(trace) |->
               IF trace[i].call = "search" THEN trace[i].returned ELSE <<>>])

TitlesOf(refs) == {refs[i].title : i \in 1..Len(refs)}

FirstPosition(refs, t) ==
    CHOOSE i \in 1..Len(refs) :
        refs[i].title = t /\ \A j \in 1..(i-1) : refs[j].title # t

\* C5: the deduplicated list holds each distinct title exactly once, in the
\* order of the titles' first occurrences in the concatenated results.
C5_DedupFirstSeenOrder ==
    PromptBuilt =>
        /\ \A t \in TitlesOf(Collected) :
               Cardinality({i \in 1..Len(unique_refs) : unique_refs[i].title = t}) = 1
        /\ TitlesOf(unique_refs) \subseteq TitlesOf(Collected)
        /\ \A i, j \in 1..Len(unique_refs) :
               i < j => FirstPosition(Collected, unique_refs[i].title)
                          < FirstPosition(Collected, unique_refs[j].title)

\* two queries returned the same title, and a second title came in between
C5_Witness ==
    /\ PromptBuilt
    /\ Len(unique_refs) >= 2
    /\ Len(Collected) > Len(unique_refs)
    /\ \E i, j \in 1..Len(trace) :
          /\ i < j
          /\ TitlesOf(trace[i].returned) \cap TitlesOf(trace[j].returned) # {}

\* C10: a query whose search fails contributes no reference, and every query
\* is still executed.
C10_FailedQueryContributesNothing ==
    /\ \A i \in 1..Len(trace) :
          (trace[i].call = "search" /\ trace[i].failed)
              => trace[i].returned = <<>>
    /\ PromptBuilt =>
          \A q \in 1..Len(search_queries(data)) :
              \E i \in 1..Len(trace) : trace[i].call = "search" /\ trace[i].query = q

(***************************************************************************)
(* Claims about main, display_results and generate_pdf_report              *)
(***************************************************************************)
Called(call) == \E i \in 1..Len(trace) : trace[i].call = call

\* the API call of query_ai raised
AiFailed == \E i \in 1..Len(trace) : trace[i].call = "ai" /\ trace[i].failed

Rendered(v, widget, arg) ==
    \E i \in 1..Len(v) : v[i].widget = widget /\ v[i].arg = arg

GroupingSubheaders ==
    {"Clasificacion del Suelo", "Problemas Identificados",
     "Metodo de Estabilizacion Recomendado", "Justificacion Tecnica",
     "Normativas Aplicables", "Referencias Tecnicas", "Aplicaciones Recomendadas"}

GroupedSections ==
    {"classification", "problems", "recommendation", "justification",
     "norms", "references", "applications"}

\* one of the three groupings, or a part of one, is on the interactive view
GroupingRendered ==
    \E i \in 1..Len(view) :
        \/ view[i].widget = "tabs"
        \/ view[i].widget = "subheader" /\ view[i].arg \in GroupingSubheaders
        \/ view[i].widget = "markdown" /\ view[i].arg \in GroupedSections

SuccessReported == Rendered(view, "success", "Analisis completado exitosamente")

\* C6: when the API call of query_ai raises, the analysis is never reported
\* as completed, no grouping is rendered and no report document is generated.
C6_ReasoningFailureAborts ==
    AiFailed => (~SuccessReported /\ ~GroupingRendered /\ pdf_path = None /\ pdf = <<>>)

\* display_results has run on the current answer
Displayed == pc \in {"generate_pdf_report", "download", "finally", "done"} /\ Called("ai")

\* the parsed evaluation section contains a failure keyword
Rejected == has_failure_keyword(parse_response(analysis).parameter_evaluation)

\* C7: when the parsed evaluation contains a failure keyword, display_results
\* renders the evaluation section and none of the three groupings.
C7_RejectedViewShowsOnlyEvaluation ==
    (Displayed /\ Rejected)
        => /\ ~GroupingRendered
           /\ ~SuccessReported
           /\ Rendered(view, "markdown", "parameter_evaluation")

\* a rejected answer whose other sections parsed to text has been displayed
C7_Witness ==
    /\ Displayed /\ Rejected
    /\ parse_response(analysis).classification # <<>>
    /\ parse_response(analysis).recommendation # <<>>
    /\ parse_response(analysis).applications # <<>>
    /\ keyword_in("error", parse_response(analysis).parameter_evaluation)
    /\ Rendered(view, "markdown", "parameter_evaluation")

\* C8: when the parsed evaluation contains a failure keyword, the generated
\* document shows the evaluation and no other section.
C8_RejectedDocumentShowsOnlyEvaluation ==
    (pdf_path # None /\ Rejected)
        => \A i \in 1..Len(pdf) :
               ~(pdf[i].widget = "text" /\ pdf[i].arg \in GroupedSections)

External == {"search", "ai"}

\* C9: no search query and no reasoning call happens before validation has
\* run, and none happens at all once validation has reported a violation.
C9_ValidationBeforeExternalCalls ==
    /\ \A i \in 1..Len(trace) :
          trace[i].call \in External
              => \E j \in 1..(i-1) : trace[j].call = "validate"
    /\ (\E j \in 1..Len(trace) : trace[j].call = "validate" /\ trace[j].failed)
          => \A i \in 1..Len(trace) : trace[i].call \notin External

\* a request whose validation failed has run to its end
C9_Witness ==
    /\ pc = "done"
    /\ validation_error # NoError
    /\ Called("validate")
    /\ ~Called("search") /\ ~Called("ai")

(***************************************************************************)
(* C11                                                                     *)
(***************************************************************************)
\* os.unlink(pdf_path) / shutil.rmtree(TEMP_DIR) raised
UnlinkFailed == \E i \in 1..Len(trace) : trace[i].call = "unlink" /\ trace[i].failed

RmtreeFailed == \E i \in 1..Len(trace) : trace[i].call = "rmtree" /\ trace[i].failed

RmtreeDone == \E i \in 1..Len(trace) : trace[i].call = "rmtree" /\ ~trace[i].failed

RenderedCount(v, widget, arg) ==
    IF \E i \in 1..Len(v) : v[i].widget = widget /\ v[i].arg = arg
    THEN (CHOOSE e \in Range(v) : e.widget = widget /\ e.arg = arg).n
    ELSE 0

\* display_results and generate_pdf_report have both rendered the answer
BothViews == pc \in {"download", "finally", "done"} /\ pdf_path # None

\* C12: both views cap the normative citations at one fixed count and the
\* references at one fixed count, with the same values in display_results and
\* in generate_pdf_report.  The only count the code fixes is 5.
C12_SameBoundedCounts ==
    BothViews
        => /\ display_refs_cap = pdf_refs_cap
           /\ RenderedCount(view, "markdown", "references") <= display_refs_cap
           /\ RenderedCount(pdf, "text", "references") <= pdf_refs_cap
           /\ RenderedCount(view, "markdown", "norms") <= display_refs_cap
           /\ RenderedCount(pdf, "text", "norms") <= pdf_refs_cap

(***************************************************************************)
(* C13                                                                     *)
(***************************************************************************)
AtterbergReported ==
    \E i \in 1..Len(validation_error) :
        validation_error[i] = "El limite liquido (LL) no puede ser menor que el limite plastico (LP)"

GranulometryReported ==
    \E i \in 1..Len(validation_error) :
        validation_error[i] = "La suma de los porcentajes de granulometria debe ser 100%"

\* C13: the validator reports no Atterberg violation when LL or LP is absent,
\* no granulometry violation when one of the four percentages is absent, and
\* no violation at all for soil type Arena, water table 1.5 m, 150 kPa alone.
C13_AbsentOptionalFieldsSkipped ==
    pc = "validated"
        => /\ (~Has(data, "ll") \/ ~Has(data, "lp")) => ~AtterbergReported
           /\ ~GranComplete(data) => ~GranulometryReported
           /\ data = ArenaExample => validation_error = NoError

\* validated without a violation: LP alone, above the absent LL's place, and
\* three percentages that do not sum to 100
C13_Witness ==
    /\ pc = "validated"
    /\ ~Has(data, "ll") /\ Has(data, "lp") /\ data.val.lp > 0
    /\ ~GranComplete(data) /\ Has(data, "gravel") /\ GranSum(data) # 100
    /\ validation_error = NoError

(***************************************************************************)
(* C14                                                                     *)
(***************************************************************************)
\* position of the first line of the document that equals l
LineAt(doc, l) == CHOOSE i \in 1..Len(doc) : doc[i] = l /\ \A j \in 1..(i-1) : doc[j] # l

\* the lines of the technical-data block of the document
TechnicalData(doc) ==
    SubSeq(doc, LineAt(doc, Fixed("### Datos Tecnicos del Suelo:")) + 1,
                LineAt(doc, Fixed("### Contexto Tecnico:")) - 1)

\* the indices that the numbered lines of the block carry, in order
NumberedIndices(doc) ==
    LET numbered == SelectSeq(TechnicalData(doc), LAMBDA l : l.index > 0)
    IN [i \in 1..Len(numbered) |-> numbered[i].index]

\* C14: the numbered attribute lines of the technical-data block carry the
\* contiguous indices 1..k, whatever subset of optional attributes is present.
C14_ContiguousIndices ==
    PromptBuilt =>
        \A i \in 1..Len(NumberedIndices(prompt)) : NumberedIndices(prompt)[i] = i

(***************************************************************************)
(* C15                                                                     *)
(***************************************************************************)
\* the text from just after the first occurrence of the section's heading to
\* the first occurrence of the nearest later heading, or to the end of the text
FirstOccurrenceSpan(content, section) ==
    LET start == Find(content, section_markers[section]) + 1
        later == {Find(content, section_markers[t]) + 1 : t \in SectionSet} \cap
                     ((start + 1)..Len(content))
        stop  == IF later = {} THEN Len(content) + 1
                 ELSE CHOOSE i \in later : \A j \in later : i <= j
    IN Strip(SubSeq(content, start + 1, stop - 1))

\* C15: each found section's text extends from just after its heading's first
\* occurrence to the first occurrence of the nearest later heading or the end
\* of the text; a repeated heading inside the body is no boundary.
C15_RepeatedHeadingIsNoBoundary ==
    pc = "parsed" =>
        \A s \in SectionSet :
            Contains(analysis, section_markers[s])
                => sections[s] = FirstOccurrenceSpan(analysis, s)

(***************************************************************************)
(* C16                                                                     *)
(***************************************************************************)
\* how many search calls generate_technical_prompt made
SearchCalls == Cardinality({i \in 1..Len(trace) : trace[i].call = "search"})

\* C16: generate_technical_prompt runs 2 or 3 queries: soil type with water
\* level, soil type with load pressure, and a third one exactly when IP or LL
\* is present, built from IP when IP is present and from LL otherwise.
C16_TwoOrThreeQueries ==
    PromptBuilt =>
        LET q == search_queries(data) IN
        /\ SearchCalls = Len(q)
        /\ Len(q) \in {2, 3}
        /\ q[1] = [kind |-> "nivel freatico", soil |-> data.soil_type,
                   value |-> data.val.water_level]
        /\ q[2] = [kind |-> "presion de carga", soil |-> data.soil_type,
                   value |-> data.val.load_pressure]
        /\ Len(q) = 3 <=> (Has(data, "ip") \/ Has(data, "ll"))
        /\ Has(data, "ip")
              => q[3] = [kind |-> "IP", soil |-> data.soil_type, value |-> data.val.ip]
        /\ (~Has(data, "ip") /\ Has(data, "ll"))
              => q[3] = [kind |-> "LL", soil |-> data.soil_type, value |-> data.val.ll]

\* a document built for a ParameterSet with both IP and LL, after three calls
C16_Witness ==
    /\ PromptBuilt
    /\ Has(data, "ip") /\ Has(data, "ll")
    /\ SearchCalls = 3
    /\ search_queries(data)[3].kind = "IP"

(***************************************************************************)
(* C18                                                                     *)
(***************************************************************************)
\* the plasticity index is there exactly with both limits, and is LL - LP
PlasticityIndexInvariant(d) ==
    /\ Has(d, "ip") <=> (Has(d, "ll") /\ Has(d, "lp"))
    /\ Has(d, "ll") => d.val.ll > 0
    /\ Has(d, "lp") => d.val.lp > 0
    /\ Has(d, "ip") => d.val.ip = d.val.ll - d.val.lp

\* C18: every dict that data_input_interface builds and passes to validation
\* has the plasticity index exactly when LL and LP are both present (entered
\* above 0), equal to LL - LP; so has every set handed to the pipeline.
C18_FormKeepsPlasticityIndexInvariant ==
    /\ Called("validate") => PlasticityIndexInvariant(built)
    /\ data # NoData => PlasticityIndexInvariant(data)

\* a form with LL = LP was validated and handed on with IP = 0, and the
\* search has begun
C18_Witness ==
    /\ Called("validate")
    /\ Has(built, "ip") /\ built.val.ll = 20 /\ built.val.lp = 20 /\ built.val.ip = 0
    /\ data = built
    /\ pc = "search"

(***************************************************************************)
(* C19                                                                     *)
(***************************************************************************)
InView(section) == Rendered(view, "markdown", section)

InDocument(section) == Rendered(pdf, "text", section)

\* in both views the justification needs the recommendation, and the
\* citations and references need the recommendation and the justification
NestedAlike ==
    /\ (InView("justification") \/ InDocument("justification"))
          => sections.recommendation # <<>>
    /\ \A l \in {"norms", "references"} :
          (InView(l) \/ InDocument(l))
              => sections.recommendation # <<>> /\ sections.justification # <<>>

\* C19 (as stated): for an answer that is not rejected, a section's content
\* is in the interactive view exactly when it is in the document.
C19_ViewsShowSameSections ==
    (BothViews /\ ~Rejected)
        => /\ NestedAlike
           /\ \A s \in SectionSet \cup {"norms", "references"} : InView(s) <=> InDocument(s)

\* C19 (amended): the same for every section but the parameter evaluation,
\* which the document shows when it is not empty and the view does not show.
C19_ViewsShowSameSectionsButEvaluation ==
    (BothViews /\ ~Rejected)
        => /\ NestedAlike
           /\ \A s \in (SectionSet \ {"parameter_evaluation"}) \cup {"norms", "references"} :
                  InView(s) <=> InDocument(s)
           /\ ~InView("parameter_evaluation")
           /\ InDocument("parameter_evaluation") <=> sections.parameter_evaluation # <<>>

\* both views of an accepted answer with an evaluation and a justification
\* but no recommendation
C19_Witness ==
    /\ BothViews /\ ~Rejected
    /\ sections.parameter_evaluation # <<>>
    /\ sections.recommendation = <<>> /\ sections.justification # <<>>
    /\ InView("classification") /\ InDocument("classification")
    /\ ~InView("justification") /\ ~InDocument("justification")

(***************************************************************************)
(* C17                                                                     *)
(***************************************************************************)
\* request r has generated its document and has not yet handed it over
AwaitingHandOver(r) == req[r].pc = "open"

\* request r is about to create or to write its document in TEMP_DIR
AboutToCreate(r) == req[r].pc \in {"NamedTemporaryFile", "output"}

\* C17: with two requests in flight, the cleanup of one never deletes the
\* generated document of another before it is handed over, nor the directory
\* in which another is about to create its document.
C17_CleanupSparesOtherRequests ==
    \A r \in DOMAIN req :
        /\ AwaitingHandOver(r) => req[r].pdf_file
        /\ AboutToCreate(r) => temp_dir

====
